---- MODULE Spec2Model ----
(***************************************************************************)
(* The local secrets vault of CareerForge-AI (src/secrets_utils.py): the   *)
(* secrets file, the load state machine, the migration to the encrypted    *)
(* layout and the two add-key operations, with the factory reset of        *)
(* src/app.py.  The file is modelled by its parsed JSON content; the       *)
(* cipher by what it guarantees (a token opens under the key it was made   *)
(* with, and only if it is intact).                                        *)
(***************************************************************************)
EXTENDS Integers, Sequences, FiniteSets, TLC

VARIABLES
    file,   \* content of SECRETS_FILE: NoFile, Garbage, or a parsed JSON object
    op,     \* the call that just ended, with its arguments and environment
    ret,    \* how that call ended: its return value, or the exception it raised
    before  \* content of SECRETS_FILE when that call started

vars == <<file, op, ret, before>>

----------------------------------------------------------------------------
(* Bounds of the model *)

\* largest number of key entries (both providers together) a store holds
MaxKeys == 2

----------------------------------------------------------------------------
(* Values *)

Providers == {"OpenAI", "Gemini"}
Keys == {"sk-test1234", "abc"}
Names == {"My Key", "Work"}

\* Python's None, for an argument or a dict field that is not there
None == "<None>"
Passwords == {"", "hunter2", "wrong"}

\* a Python value is truthy unless it is None or the empty string
Truthy(v) == v # None /\ v # ""

\* values of the two environment variables: unset (None) or a credential
EnvOpenAI == {None, "sk-env-openai"}
EnvGemini == {None, "sk-env-gemini"}

\* the salts os.urandom is modelled to draw
SaltBytes == 0..1

\* A key entry: a bare string (t = "str") or a dict (t = "dict") with the
\* fields name, key and, when present, source.
Bare(k) == [t |-> "str", name |-> None, key |-> k, source |-> None]
Named(n, k) == [t |-> "dict", name |-> n, key |-> k, source |-> None]
EnvEntry(n, k) == [t |-> "dict", name |-> n, key |-> k, source |-> "env"]

isinstance_str(e) == e.t = "str"
isinstance_dict(e) == e.t = "dict"

\* item[-4:] : the last four characters, the whole string when it is shorter
Last4(s) == IF Len(s) > 4 THEN SubSeq(s, Len(s) - 3, Len(s)) ELSE s

\* the file is absent, unparsable, or holds a JSON object
NoFile == [kind |-> "absent"]
Garbage == [kind |-> "garbage"]
\* a file whose bytes are not text in the encoding open() reads with
Undecodable == [kind |-> "undecodable"]
\* JSON documents of an unexpected shape: a top level that is not an object,
\* an object whose version is a text, and an object without version whose
\* list fields in nulls are null (obj holds the fields that are lists)
TopLevelArray == [kind |-> "array"]
TextVersion == [kind |-> "text_version"]
NullFields(obj, nulls) == [kind |-> "null_fields", obj |-> obj, nulls |-> nulls]
JsonFile(obj) == [kind |-> "object", obj |-> obj]

\* dict.get(k, default)
Get(d, k, default) == IF k \in DOMAIN d THEN d[k] ELSE default

----------------------------------------------------------------------------
(* Encryption utilities, secrets_utils.py lines 12-45 *)

HexDigits == <<"0", "1", "2", "3", "4", "5", "6", "7",
               "8", "9", "a", "b", "c", "d", "e", "f">>

\* bytes.hex() of a one-byte salt (the 16 random bytes are modelled by one)
hex(b) == HexDigits[(b \div 16) + 1] \o HexDigits[(b % 16) + 1]

\* bytes.fromhex(s): the byte whose hex form is s; raises ValueError otherwise
fromhex_ok(s) == \E b \in SaltBytes : hex(b) = s
fromhex(s) == CHOOSE b \in SaltBytes : hex(b) = s

\* mutant: the key does not depend on the password
derive_key_salt_only(password, salt) == <<"", salt>>

\* PBKDF2-HMAC-SHA256 of the password under the salt, as the pair it is a
\* collision-free function of
derive_key(password, salt) == <<password, salt>>

\* JSON text, as its sequence of tokens: punctuation and string literals
Punct(c) == [tok |-> "punct", v |-> c]
Str(x) == [tok |-> "string", v |-> x]

\* json.dumps of one key entry: a string literal, or an object with the
\* fields the dict holds, in their order
dumps_entry(e) ==
    IF isinstance_str(e) THEN <<Str(e.key)>>
    ELSE <<Punct("{"), Str("name"), Str(e.name), Str("key"), Str(e.key)>>
         \o (IF e.source # None THEN <<Str("source"), Str(e.source)>> ELSE <<>>)
         \o <<Punct("}")>>

RECURSIVE dumps_entries(_)
dumps_entries(k_list) ==
    IF k_list = <<>> THEN <<>>
    ELSE dumps_entry(Head(k_list)) \o dumps_entries(Tail(k_list))

\* json.dumps of a dict of key lists, given as its items in insertion order
RECURSIVE json_dumps(_)
json_dumps(items) ==
    IF items = <<>> THEN <<Punct("{"), Punct("}")>>
    ELSE <<Punct("{"), Str(items[1][1]), Punct("[")>>
         \o dumps_entries(items[1][2])
         \o <<Punct("]")>>
         \o Tail(json_dumps(Tail(items)))

\* json.loads, an object of an entry: the fields up to the closing brace
RECURSIVE loads_fields(_, _, _)
loads_fields(text, pos, entry) ==
    IF text[pos] = Punct("}") THEN [value |-> entry, pos |-> pos + 1]
    ELSE loads_fields(text, pos + 2,
                      [entry EXCEPT ![text[pos].v] = text[pos + 1].v])

\* json.loads, a list of entries: up to the closing bracket
RECURSIVE loads_entries(_, _, _)
loads_entries(text, pos, k_list) ==
    IF text[pos] = Punct("]") THEN [value |-> k_list, pos |-> pos + 1]
    ELSE IF text[pos] = Punct("{")
         THEN LET e == loads_fields(text, pos + 1,
                           [t |-> "dict", name |-> None, key |-> None, source |-> None])
              IN  loads_entries(text, e.pos, Append(k_list, e.value))
         ELSE loads_entries(text, pos + 1,
                  Append(k_list, [t |-> "str", name |-> None, key |-> text[pos].v,
                                  source |-> None]))

\* json.loads, the members of the top-level object
RECURSIVE loads_members(_, _, _)
loads_members(text, pos, dict) ==
    IF text[pos] = Punct("}") THEN dict
    ELSE LET l == loads_entries(text, pos + 2, <<>>)
         IN  loads_members(text, l.pos, (text[pos].v :> l.value) @@ dict)

\* json.loads of the text json.dumps wrote: the dict, as a function of its keys
json_loads(text) == loads_members(text, 2, <<>>)

\* Fernet(key).encrypt(msg): an authenticated token bound to the key
fernet_encrypt(key, msg) == [sealed_with |-> key, msg |-> msg, intact |-> TRUE]

\* Fernet(key).decrypt(token) raises InvalidToken unless the token is intact
\* and was sealed with this key
fernet_decrypt_ok(key, token) == token.intact /\ token.sealed_with = key
fernet_decrypt(key, token) == token.msg

\* mutant: the salt stored is not the salt the key was derived with
encrypt_data_other_salt(data_dict, password, salt) ==
    [version |-> 1,
     salt |-> hex(1 - salt),
     data |-> fernet_encrypt(derive_key(password, salt), json_dumps(data_dict))]

\* encrypt_data(data_dict, password), with the salt os.urandom returned; the
\* dict is given as its items in insertion order
encrypt_data(data_dict, password, salt) ==
    [version |-> 1,
     salt |-> hex(salt),
     data |-> fernet_encrypt(derive_key(password, salt), json_dumps(data_dict))]

\* decrypt_data(store, password) returns normally (else it raises: KeyError
\* for a missing field, ValueError for a salt that is not hex, InvalidToken)
decrypt_data_ok(store, password) ==
    /\ "salt" \in DOMAIN store
    /\ fromhex_ok(store["salt"])
    /\ "data" \in DOMAIN store
    /\ fernet_decrypt_ok(derive_key(password, fromhex(store["salt"])), store["data"])

decrypt_data(store, password) ==
    json_loads(fernet_decrypt(derive_key(password, fromhex(store["salt"])), store["data"]))

----------------------------------------------------------------------------
(* load_secrets, secrets_utils.py lines 49-118 *)

ListFields == {"openai_keys", "gemini_keys"}

\* line 84: the file holds the encrypted layout
is_versioned(disk_data) == "version" \in DOMAIN disk_data /\ disk_data["version"] >= 1

\* lines 66-71: the base structure
BaseSecrets == [openai_keys |-> <<>>, gemini_keys |-> <<>>,
                is_encrypted |-> FALSE, requires_unlock |-> FALSE]

\* mutant: the except branch of lines 93-94 forgets to set requires_unlock
encrypted_secrets_unflagged(disk_data, password) ==
    IF Truthy(password) /\ decrypt_data_ok(disk_data, password)
    THEN LET decrypted == decrypt_data(disk_data, password)
         IN  [openai_keys |-> Get(decrypted, "openai_keys", <<>>),
              gemini_keys |-> Get(decrypted, "gemini_keys", <<>>),
              is_encrypted |-> TRUE, requires_unlock |-> FALSE]
    ELSE [BaseSecrets EXCEPT !.is_encrypted = TRUE,
                             !.requires_unlock = ~Truthy(password)]

\* mutant: an empty password is a password
encrypted_secrets_empty_password(disk_data, password) ==
    IF password # None /\ decrypt_data_ok(disk_data, password)
    THEN LET decrypted == decrypt_data(disk_data, password)
         IN  [openai_keys |-> Get(decrypted, "openai_keys", <<>>),
              gemini_keys |-> Get(decrypted, "gemini_keys", <<>>),
              is_encrypted |-> TRUE, requires_unlock |-> FALSE]
    ELSE [BaseSecrets EXCEPT !.is_encrypted = TRUE, !.requires_unlock = TRUE]

\* lines 86-96: the encrypted path; a failed decryption is swallowed
encrypted_secrets(disk_data, password) ==
    IF Truthy(password) /\ decrypt_data_ok(disk_data, password)
    THEN LET decrypted == decrypt_data(disk_data, password)
         IN  [openai_keys |-> Get(decrypted, "openai_keys", <<>>),
              gemini_keys |-> Get(decrypted, "gemini_keys", <<>>),
              is_encrypted |-> TRUE, requires_unlock |-> FALSE]
    ELSE [BaseSecrets EXCEPT !.is_encrypted = TRUE, !.requires_unlock = TRUE]

\* mutant: both lists are read from the openai_keys field
legacy_secrets_same_field(disk_data) ==
    [BaseSecrets EXCEPT !.openai_keys = Get(disk_data, "openai_keys", <<>>),
                        !.gemini_keys = Get(disk_data, "openai_keys", <<>>)]

\* lines 100-102: the legacy unencrypted path
legacy_secrets(disk_data) ==
    [BaseSecrets EXCEPT !.openai_keys = Get(disk_data, "openai_keys", <<>>),
                        !.gemini_keys = Get(disk_data, "gemini_keys", <<>>)]

\* json.load of an object with null list fields
json_object(f) ==
    [k \in DOMAIN f.obj \cup f.nulls |-> IF k \in f.nulls THEN None ELSE f.obj[k]]

\* lines 78-104: what the disk contributes before the environment is added
\* (a file that is absent or cannot be parsed leaves the base structure)
disk_secrets(f, password) ==
    IF f.kind = "null_fields" THEN legacy_secrets(json_object(f))
    ELSE IF f.kind # "object" THEN BaseSecrets
    ELSE IF is_versioned(f.obj) THEN encrypted_secrets(f.obj, password)
         ELSE legacy_secrets(f.obj)

\* mutant: the env entry is appended instead of inserted at index 0
inject_env_appended(k_list, label, env_value) ==
    IF Truthy(env_value) THEN Append(k_list, EnvEntry(label, env_value)) ELSE k_list

\* lines 106-116: list.insert(0, entry) when the variable is set
inject_env(k_list, label, env_value) ==
    IF Truthy(env_value) THEN <<EnvEntry(label, env_value)>> \o k_list ELSE k_list

load_secrets(f, password, env_openai, env_gemini) ==
    LET secrets == disk_secrets(f, password)
    IN  [secrets EXCEPT
            !.openai_keys = inject_env(@, "ENV (OPENAI_API_KEY)", env_openai),
            !.gemini_keys = inject_env(@, "ENV (GEMINI_API_KEY)", env_gemini)]

\* lines 106-116 are outside the try: insert on a value that is not a list
\* is an AttributeError nothing catches
load_raises(f, env_openai, env_gemini) ==
    /\ f.kind = "null_fields"
    /\ \/ ("openai_keys" \in f.nulls /\ Truthy(env_openai))
       \/ ("gemini_keys" \in f.nulls /\ Truthy(env_gemini))

\* the state of the load state machine a call with this password is in
LoadState(f, password) ==
    CASE f.kind = "absent" -> "NO_FILE"
      [] f.kind # "object" -> "UNREADABLE"
      [] OTHER -> IF ~is_versioned(f.obj) THEN "LEGACY"
                  ELSE IF disk_secrets(f, password).requires_unlock
                       THEN "LOCKED" ELSE "UNLOCKED"

----------------------------------------------------------------------------
(* init_encryption, secrets_utils.py lines 120-149 *)

\* mutant: the filter is left out
clean_env_unfiltered(k_list) == k_list

\* lines 125-126: drop the env entries loaded in front of the stored ones
clean_env(k_list) ==
    SelectSeq(k_list, LAMBDA k : (isinstance_dict(k) /\ k.source # "env")
                                  \/ isinstance_str(k))

\* mutant: only dict entries are kept, bare strings are skipped
normalize_dicts_only(k_list) ==
    SelectSeq(k_list, LAMBDA k : isinstance_dict(k))

\* mutant: every item is wrapped, a dict too
normalize_rewrap(k_list) ==
    [i \in 1..Len(k_list) |->
        Named("Legacy Key (..." \o Last4(k_list[i].key) \o ")", k_list[i].key)]

\* lines 132-139: a bare string becomes a named entry, a dict is kept
normalize(k_list) ==
    [i \in 1..Len(k_list) |->
        IF isinstance_str(k_list[i])
        THEN Named("Legacy Key (..." \o Last4(k_list[i].key) \o ")", k_list[i].key)
        ELSE k_list[i]]

\* line 122 or lines 125-126: the exception init_encryption leaves with
\* before it writes, None when it gets to the write
init_exception(f, env_openai, env_gemini) ==
    IF load_raises(f, env_openai, env_gemini) THEN "AttributeError"
    ELSE IF f.kind = "null_fields" THEN "TypeError"
    ELSE None

\* mutant: the current store is loaded with the new password
init_encryption_unlocking(f, password, env_openai, env_gemini, salt) ==
    LET current == load_secrets(f, password, env_openai, env_gemini)
        to_encrypt == << <<"openai_keys", normalize(clean_env(current.openai_keys))>>,
                         <<"gemini_keys", normalize(clean_env(current.gemini_keys))>> >>
    IN  JsonFile(encrypt_data(to_encrypt, password, salt))

\* the file init_encryption(password) writes
init_encryption(f, password, env_openai, env_gemini, salt) ==
    LET current == load_secrets(f, None, env_openai, env_gemini)
        to_encrypt == << <<"openai_keys", normalize(clean_env(current.openai_keys))>>,
                         <<"gemini_keys", normalize(clean_env(current.gemini_keys))>> >>
    IN  JsonFile(encrypt_data(to_encrypt, password, salt))

----------------------------------------------------------------------------
(* save_secret_encrypted, secrets_utils.py lines 151-180 *)

target_of(provider) == IF provider = "OpenAI" THEN "openai_keys" ELSE "gemini_keys"
other_of(provider) == IF provider = "OpenAI" THEN "gemini_keys" ELSE "openai_keys"

\* line 154 or lines 158 and 166: the exception save_secret_encrypted leaves
\* with before its try, None when it gets to the write
save_encrypted_exception(f, env_openai, env_gemini) ==
    IF load_raises(f, env_openai, env_gemini) THEN "AttributeError"
    ELSE IF f.kind = "null_fields" THEN "TypeError"
    ELSE None

\* mutant: the source test is inverted
real_keys_inverted(k_list) ==
    SelectSeq(k_list, LAMBDA k : isinstance_dict(k) /\ k.source = "env")

\* mutant: bare strings are kept along with the dict entries
real_keys_with_strings(k_list) ==
    SelectSeq(k_list, LAMBDA k : isinstance_str(k) \/ k.source # "env")

\* lines 158 and 166: keep the dict entries that are not env entries
real_keys(k_list) ==
    SelectSeq(k_list, LAMBDA k : isinstance_dict(k) /\ k.source # "env")

\* mutant: an encrypted store is rewritten under the salt it already has
save_secret_encrypted_same_salt(f, provider, name, key, password, env_openai, env_gemini, salt) ==
    LET secrets == load_secrets(f, password, env_openai, env_gemini)
        target_list == target_of(provider)
        other_list == other_of(provider)
        to_encrypt == << <<target_list,
                            Append(real_keys(secrets[target_list]), Named(name, key))>>,
                         <<other_list, real_keys(secrets[other_list])>> >>
        old_salt == IF f.kind = "object" /\ is_versioned(f.obj) /\ fromhex_ok(f.obj["salt"])
                    THEN fromhex(f.obj["salt"]) ELSE salt
    IN  JsonFile(encrypt_data(to_encrypt, password, old_salt))

\* the file save_secret_encrypted(provider, name, key, password) writes
save_secret_encrypted(f, provider, name, key, password, env_openai, env_gemini, salt) ==
    LET secrets == load_secrets(f, password, env_openai, env_gemini)
        target_list == target_of(provider)
        other_list == other_of(provider)
        to_encrypt == << <<target_list,
                            Append(real_keys(secrets[target_list]), Named(name, key))>>,
                         <<other_list, real_keys(secrets[other_list])>> >>
    IN  JsonFile(encrypt_data(to_encrypt, password, salt))

----------------------------------------------------------------------------
(* save_secret_plain, secrets_utils.py lines 182-223 *)

Skeleton == [openai_keys |-> <<>>, gemini_keys |-> <<>>]

\* mutant: a file in the encrypted layout is taken for a corrupt one
read_raw_plain_only(f) ==
    IF f.kind = "object" /\ "version" \notin DOMAIN f.obj THEN f.obj ELSE Skeleton

\* lines 185-193: the parsed file, or the skeleton when absent or unparsable
read_raw(f) == IF f.kind = "object" THEN f.obj ELSE Skeleton

\* lines 188-191: json.load failing with an error that is neither a
\* JSONDecodeError nor an IOError (the UnicodeDecodeError of f.read()) leaves
\* the except clause
plain_read_raises(f) == f.kind = "undecodable"

\* line 199: all(isinstance(k, str) for k in data.get(target, []))
all_str(k_list) == \A i \in 1..Len(k_list) : isinstance_str(k_list[i])

\* lines 208-211: an entry, bare or dict, already holds this key value
key_exists(existing, key) ==
    \E i \in 1..Len(existing) : existing[i].key = key

\* mutant: data.get(target, []) instead of data[target]
read_target_get(data, target) ==
    [raised |-> FALSE, items |-> Get(data, target, <<>>)]

\* line 201: data[target], a KeyError when the field is missing
read_target(data, target) ==
    IF target \in DOMAIN data
    THEN [raised |-> FALSE, items |-> data[target]]
    ELSE [raised |-> TRUE, items |-> <<>>]

\* the call raises at line 201 (the else branch only runs on a non-empty list)
plain_raises(data, target) ==
    all_str(Get(data, target, <<>>)) /\ read_target(data, target).raised

\* line 201: every bare string of the list as a named entry
legacy_upgrade(items) ==
    [i \in 1..Len(items) |->
        Named("Legacy (..." \o Last4(items[i].key) \o ")", items[i].key)]

\* lines 199-205: what save_secret_plain makes of the list it found, before
\* it adds the new key: upgraded when every entry is a string, kept otherwise
plain_normalize(k_list) ==
    IF all_str(k_list) THEN legacy_upgrade(k_list) ELSE k_list

\* mutant: the entry built with name and key in each other's place
plain_target_swapped(data, target, key, name) ==
    IF all_str(Get(data, target, <<>>))
    THEN LET items == read_target(data, target).items
         IN  Append(legacy_upgrade(items), Named(key, name))
    ELSE LET existing == Get(data, target, <<>>)
         IN  IF key_exists(existing, key) THEN existing
             ELSE Append(existing, Named(key, name))

\* lines 199-216: the target list after the call
plain_target(data, target, key, name) ==
    IF all_str(Get(data, target, <<>>))
    THEN LET items == read_target(data, target).items
         IN  Append(legacy_upgrade(items), Named(name, key))
    ELSE LET existing == Get(data, target, <<>>)
         IN  IF key_exists(existing, key) THEN existing
             ELSE Append(existing, Named(name, key))

\* the exception save_secret_plain leaves with before it writes, None when
\* it gets to the write: line 190 (f.read), line 199 (.get of a list, iterating
\* null), line 201 (data[target])
plain_exception(f, target) ==
    CASE plain_read_raises(f) -> "UnicodeDecodeError"
      [] f.kind = "array" -> "AttributeError"
      [] f.kind = "text_version" -> "KeyError"
      [] f.kind = "null_fields" ->
            IF target \in f.nulls THEN "TypeError"
            ELSE IF plain_raises(f.obj, target) THEN "KeyError" ELSE None
      [] OTHER -> IF plain_raises(read_raw(f), target) THEN "KeyError" ELSE None

\* the file save_secret_plain(provider, key, name) writes; a null list of
\* the other provider is a present field and stays null (lines 219-220)
save_secret_plain(f, provider, key, name) ==
    LET data == IF f.kind = "null_fields" THEN f.obj ELSE read_raw(f)
        target == target_of(provider)
        other == other_of(provider)
        data1 == (target :> plain_target(data, target, key, name)) @@ data
        data2 == IF other \notin DOMAIN data1 THEN (other :> <<>>) @@ data1 ELSE data1
    IN  IF f.kind = "null_fields" THEN NullFields(data1, f.nulls) ELSE JsonFile(data2)

----------------------------------------------------------------------------
(* mask_key_obj, secrets_utils.py lines 225-237 *)

\* mutant: the tail is shown from four characters on
mask_key_obj_threshold(key_obj) ==
    IF isinstance_str(key_obj)
    THEN IF Len(key_obj.key) >= 4
         THEN "Legacy (..." \o Last4(key_obj.key) \o ")"
         ELSE key_obj.key
    ELSE IF isinstance_dict(key_obj)
    THEN LET name == IF key_obj.name = None THEN "Unnamed" ELSE key_obj.name
             k == IF key_obj.key = None THEN "" ELSE key_obj.key
             tail == IF Len(k) >= 4 THEN Last4(k) ELSE "***"
         IN  name \o " (..." \o tail \o ")"
    ELSE "Invalid Key"

\* the label the UI shows for a key entry
mask_key_obj(key_obj) ==
    IF isinstance_str(key_obj)
    THEN IF Len(key_obj.key) > 4
         THEN "Legacy (..." \o Last4(key_obj.key) \o ")"
         ELSE key_obj.key
    ELSE IF isinstance_dict(key_obj)
    THEN LET name == IF key_obj.name = None THEN "Unnamed" ELSE key_obj.name
             k == IF key_obj.key = None THEN "" ELSE key_obj.key
             tail == IF Len(k) > 4 THEN Last4(k) ELSE "***"
         IN  name \o " (..." \o tail \o ")"
    ELSE "Invalid Key"

----------------------------------------------------------------------------
(* The state machine *)

\* every sequence over S of length at most n
SeqsUpTo(S, n) == UNION {[1..m -> S] : m \in 0..n}

\* the key lists a JSON object holds in the clear, and an encrypted one inside
plain_lists(obj) == [openai_keys |-> Get(obj, "openai_keys", <<>>),
                     gemini_keys |-> Get(obj, "gemini_keys", <<>>)]

payload_of(obj) == json_loads(obj["data"].msg)

\* number of key entries a file holds, in either layout
Entries(f) ==
    IF f.kind \notin {"object", "null_fields"} THEN 0
    ELSE IF is_versioned(f.obj)
         THEN Len(Get(payload_of(f.obj), "openai_keys", <<>>))
              + Len(Get(payload_of(f.obj), "gemini_keys", <<>>))
         ELSE Len(plain_lists(f.obj).openai_keys) + Len(plain_lists(f.obj).gemini_keys)

\* key lists of files written before this run: empty, bare strings of the
\* oldest layout, named entries, and lists that mix the two
LegacyLists ==
    { <<>>,
      <<Bare("sk-test1234")>>,
      <<Bare("abc")>>,
      <<Bare("sk-test1234"), Bare("abc")>>,
      <<Named("My Key", "sk-test1234")>>,
      <<Bare("sk-test1234"), Named("Work", "abc")>>,
      <<Named("My Key", "sk-test1234"), Bare("abc")>> }

\* plaintext/legacy files: an object with at most the two list fields
LegacyFiles ==
    {JsonFile(obj) : obj \in
        {o \in UNION {[D -> LegacyLists] : D \in SUBSET ListFields} :
            Len(Get(o, "openai_keys", <<>>)) + Len(Get(o, "gemini_keys", <<>>)) <= MaxKeys}}

\* files of an unexpected shape
MalformedFiles ==
    {TopLevelArray, TextVersion}
    \cup {NullFields(x[1], x[2]) :
            x \in {y \in {o \in UNION {[D -> LegacyLists] : D \in SUBSET ListFields} :
                            Len(Get(o, "openai_keys", <<>>))
                            + Len(Get(o, "gemini_keys", <<>>)) <= MaxKeys}
                          \X (SUBSET ListFields \ {{}}) :
                      DOMAIN y[1] \cap y[2] = {}}}

\* encrypted files of an earlier run, as written or damaged since: the salt
\* replaced by text that is not hex or by another salt, the token altered
Damage == {"none", "salt_not_hex", "salt_other", "token"}

damaged(store, how) ==
    CASE how = "none" -> store
      [] how = "salt_not_hex" -> [store EXCEPT !.salt = "zz"]
      [] how = "salt_other" -> [store EXCEPT !.salt = hex(1 - fromhex(@))]
      [] how = "token" -> [store EXCEPT !.data.intact = FALSE]

\* what such a store holds: a key for one provider or for both
StoredPayloads ==
    {d \in {[openai_keys |-> o, gemini_keys |-> g] :
                o \in SeqsUpTo({Named("My Key", "sk-test1234")}, 1),
                g \in SeqsUpTo({Named("Work", "abc")}, 1)} :
        Len(d.openai_keys) + Len(d.gemini_keys) \in 1..MaxKeys}

EncryptedFiles ==
    {JsonFile(damaged(encrypt_data(<< <<"openai_keys", d.openai_keys>>,
                                       <<"gemini_keys", d.gemini_keys>> >>, p, s), how)) :
        d \in StoredPayloads, p \in Passwords \ {""}, s \in SaltBytes, how \in Damage}

NoCall == [name |-> "none", provider |-> None, kname |-> None, key |-> None,
           password |-> None, env_openai |-> None, env_gemini |-> None]

Call(name, provider, kname, key, password, env_openai, env_gemini) ==
    [name |-> name, provider |-> provider, kname |-> kname, key |-> key,
     password |-> password, env_openai |-> env_openai, env_gemini |-> env_gemini]

Returned(v) == [raised |-> FALSE, exc |-> None, value |-> v]
Raised(e) == [raised |-> TRUE, exc |-> e, value |-> None]

Idle == op = NoCall

Init ==
    /\ file \in {NoFile, Garbage, Undecodable} \cup LegacyFiles \cup EncryptedFiles
    /\ before = file
    /\ op = NoCall
    /\ ret = Returned(None)

\* a first run: no secrets file yet
InitFresh ==
    /\ file = NoFile
    /\ before = file
    /\ op = NoCall
    /\ ret = Returned(None)

\* mutant: a load that finds no file creates the empty store
LoadSecrets_creating ==
    \E password \in Passwords \cup {None}, env_openai \in EnvOpenAI, env_gemini \in EnvGemini :
        /\ Idle
        /\ op' = Call("load_secrets", None, None, None, password, env_openai, env_gemini)
        /\ ret' = IF load_raises(file, env_openai, env_gemini)
                  THEN Raised("AttributeError")
                  ELSE Returned(load_secrets(file, password, env_openai, env_gemini))
        /\ before' = file
        /\ file' = IF file.kind = "absent" THEN JsonFile(Skeleton) ELSE file

\* load_secrets(password): reads, never writes
LoadSecrets ==
    \E password \in Passwords \cup {None}, env_openai \in EnvOpenAI, env_gemini \in EnvGemini :
        /\ Idle
        /\ op' = Call("load_secrets", None, None, None, password, env_openai, env_gemini)
        /\ ret' = IF load_raises(file, env_openai, env_gemini)
                  THEN Raised("AttributeError")
                  ELSE Returned(load_secrets(file, password, env_openai, env_gemini))
        /\ before' = file
        /\ UNCHANGED file

\* init_encryption(password)
InitEncryption ==
    \E password \in Passwords, env_openai \in EnvOpenAI, env_gemini \in EnvGemini,
       salt \in SaltBytes :
        /\ Idle
        /\ op' = Call("init_encryption", None, None, None, password, env_openai, env_gemini)
        /\ before' = file
        /\ IF init_exception(file, env_openai, env_gemini) # None
           THEN /\ ret' = Raised(init_exception(file, env_openai, env_gemini))
                /\ UNCHANGED file
           ELSE /\ file' = init_encryption(file, password, env_openai, env_gemini, salt)
                /\ ret' = Returned(None)

\* save_secret_encrypted(provider, name, key, password)
SaveSecretEncrypted ==
    \E provider \in Providers, name \in Names, key \in Keys, password \in Passwords,
       env_openai \in EnvOpenAI, env_gemini \in EnvGemini, salt \in SaltBytes :
        LET written == save_secret_encrypted(file, provider, name, key, password,
                                             env_openai, env_gemini, salt)
        IN  /\ Idle
            /\ op' = Call("save_secret_encrypted", provider, name, key, password,
                          env_openai, env_gemini)
            /\ before' = file
            /\ IF save_encrypted_exception(file, env_openai, env_gemini) # None
               THEN /\ ret' = Raised(save_encrypted_exception(file, env_openai, env_gemini))
                    /\ UNCHANGED file
               ELSE /\ Entries(written) <= MaxKeys
                    /\ file' = written
                    /\ ret' = Returned(TRUE)

\* save_secret_plain(provider, key, name)
SaveSecretPlain ==
    \E provider \in Providers, key \in Keys, name \in Names :
        /\ Idle
        /\ op' = Call("save_secret_plain", provider, name, key, None, None, None)
        /\ before' = file
        /\ IF plain_exception(file, target_of(provider)) # None
           THEN /\ ret' = Raised(plain_exception(file, target_of(provider)))
                /\ UNCHANGED file
           ELSE /\ Entries(save_secret_plain(file, provider, key, name)) <= MaxKeys
                /\ file' = save_secret_plain(file, provider, key, name)
                /\ ret' = Returned(None)

\* the factory reset of app.py removes the file
FactoryReset ==
    /\ Idle
    /\ file.kind # "absent"
    /\ file' = NoFile
    /\ op' = Call("factory_reset", None, None, None, None, None, None)
    /\ ret' = Returned(None)
    /\ before' = file

\* the call is over: the page reruns and the next call starts from the file
Rerun ==
    /\ ~Idle
    /\ op' = NoCall
    /\ ret' = Returned(None)
    /\ before' = file
    /\ UNCHANGED file

Next ==
    \/ LoadSecrets
    \/ InitEncryption
    \/ SaveSecretEncrypted
    \/ SaveSecretPlain
    \/ FactoryReset
    \/ Rerun

Spec == Init /\ [][Next]_vars

SpecFresh == InitFresh /\ [][Next]_vars

\* what a write that fails leaves on disk: open(SECRETS_FILE, "w") refused
\* leaves the file as it was, json.dump cut short leaves text that does not parse
FailedWrite(f) == {f, Garbage}

\* init_encryption(password) when the write of lines 148-149 fails: the
\* with block is in no try, the OSError leaves the function
InitEncryptionWriteFails ==
    \E password \in Passwords, env_openai \in EnvOpenAI, env_gemini \in EnvGemini :
        /\ Idle
        /\ init_exception(file, env_openai, env_gemini) = None
        /\ op' = Call("init_encryption", None, None, None, password, env_openai, env_gemini)
        /\ before' = file
        /\ file' \in FailedWrite(file)
        /\ ret' = Raised("OSError")

\* save_secret_encrypted(provider, name, key, password) when the write of
\* lines 175-176 fails: the except of lines 178-180 returns False
SaveSecretEncryptedWriteFails ==
    \E provider \in Providers, name \in Names, key \in Keys, password \in Passwords,
       env_openai \in EnvOpenAI, env_gemini \in EnvGemini :
        /\ Idle
        /\ save_encrypted_exception(file, env_openai, env_gemini) = None
        /\ op' = Call("save_secret_encrypted", provider, name, key, password,
                      env_openai, env_gemini)
        /\ before' = file
        /\ file' \in FailedWrite(file)
        /\ ret' = Returned(FALSE)

\* save_secret_plain(provider, key, name) when the write of lines 222-223
\* fails: the with block is in no try, the OSError leaves the function
SaveSecretPlainWriteFails ==
    \E provider \in Providers, key \in Keys, name \in Names :
        /\ Idle
        /\ plain_exception(file, target_of(provider)) = None
        /\ op' = Call("save_secret_plain", provider, name, key, None, None, None)
        /\ before' = file
        /\ file' \in FailedWrite(file)
        /\ ret' = Raised("OSError")

\* the vault on a disk where a write can fail
NextIO ==
    \/ Next
    \/ InitEncryptionWriteFails
    \/ SaveSecretEncryptedWriteFails
    \/ SaveSecretPlainWriteFails

SpecIO == InitFresh /\ [][NextIO]_vars

\* a run that finds whatever an earlier run, an editor or a crash left
InitShapes ==
    /\ file \in {NoFile, Garbage, Undecodable} \cup MalformedFiles \cup EncryptedFiles
    /\ before = file
    /\ op = NoCall
    /\ ret = Returned(None)

SpecShapes == InitShapes /\ [][Next]_vars

----------------------------------------------------------------------------
(* The functions of the module called on their own: the call is in op, its *)
(* argument in before, its result in ret; no file is involved.             *)

\* payloads to encrypt: bare strings, named entries and mixtures
Payloads ==
    {<< <<"openai_keys", o>>, <<"gemini_keys", g>> >> :
        o \in LegacyLists,
        g \in {l \in LegacyLists : Len(l) <= 1}}

\* keys of length 0, 3, 4, 5 and 11
MaskKeys == {"", "abc", "abcd", "abcde", "sk-test1234"}

\* entries to display: strings, dicts, dicts without name or without key
MaskEntries ==
    {Bare(k) : k \in MaskKeys}
    \cup {Named(n, k) : n \in Names \cup {None}, k \in MaskKeys \cup {None}}

PureCall(name, password) == Call(name, None, None, None, password, None, None)

InitPure ==
    /\ file = NoFile
    /\ before = NoFile
    /\ op = NoCall
    /\ ret = Returned(None)

\* encrypt_data(data, password)
EncryptData ==
    \E data \in Payloads, password \in Passwords, salt \in SaltBytes :
        /\ op' = PureCall("encrypt_data", password)
        /\ before' = [kind |-> "data", obj |-> data]
        /\ ret' = Returned(encrypt_data(data, password, salt))
        /\ UNCHANGED file

\* decrypt_data(store, password) of the store encrypt_data just returned
DecryptData ==
    \E password \in Passwords :
        /\ op.name = "encrypt_data"
        /\ op' = PureCall("decrypt_data", password)
        /\ before' = [kind |-> "store", obj |-> ret.value,
                      data |-> before.obj, password |-> op.password]
        /\ ret' = IF decrypt_data_ok(ret.value, password)
                  THEN Returned(decrypt_data(ret.value, password))
                  ELSE Raised("InvalidToken")
        /\ UNCHANGED file

\* the normalization of init_encryption and the one of save_secret_plain
Normalizers == {"init_encryption.normalize", "save_secret_plain"}

normalized(how, k_list) ==
    IF how = "init_encryption.normalize" THEN normalize(k_list)
    ELSE plain_normalize(k_list)

\* a key list is normalized
Normalize ==
    \E how \in Normalizers, k_list \in LegacyLists :
        /\ op' = PureCall(how, None)
        /\ before' = [kind |-> "list", obj |-> k_list, pass |-> 1]
        /\ ret' = Returned(normalized(how, k_list))
        /\ UNCHANGED file

\* the list it returned is normalized once more
NormalizeAgain ==
    /\ op.name \in Normalizers
    /\ before.pass = 1
    /\ before' = [kind |-> "list", obj |-> ret.value, pass |-> 2]
    /\ ret' = Returned(normalized(op.name, ret.value))
    /\ UNCHANGED <<op, file>>

\* mask_key_obj(key_obj)
MaskKeyObj ==
    \E key_obj \in MaskEntries :
        /\ op' = PureCall("mask_key_obj", None)
        /\ before' = [kind |-> "entry", obj |-> key_obj]
        /\ ret' = Returned(mask_key_obj(key_obj))
        /\ UNCHANGED file

NextPure ==
    \/ EncryptData
    \/ DecryptData
    \/ Normalize
    \/ NormalizeAgain
    \/ MaskKeyObj

SpecPure == InitPure /\ [][NextPure]_vars

----------------------------------------------------------------------------
(* Two sessions against the same secrets file. A save is a read of the     *)
(* file followed, later, by a write of what was computed from that read;   *)
(* nothing locks the file in between. Here file is the secrets file, op    *)
(* and ret hold one call and one result per writer, and before holds the   *)
(* file the run started from and the writer that wrote last.               *)

Writers == {"A", "B"}

\* the files the two sessions start from: none, an empty plaintext store, a
\* plaintext store with one key, an intact encrypted store with one key
RaceFiles ==
    {NoFile, JsonFile(Skeleton),
     JsonFile([openai_keys |-> <<Named("My Key", "sk-test1234")>>, gemini_keys |-> <<>>]),
     JsonFile(encrypt_data(<< <<"openai_keys", <<Named("My Key", "sk-test1234")>> >>,
                              <<"gemini_keys", <<>> >> >>, "hunter2", 0))}

WriterIdle == [pc |-> "idle", call |-> NoCall, read |-> NoFile]

InitRace ==
    /\ file \in RaceFiles
    /\ op = [w \in Writers |-> WriterIdle]
    /\ ret = [w \in Writers |-> Returned(None)]
    /\ before = [start |-> file, last |-> None]

\* save_secret_plain, lines 185-193: the writer reads the file
SaveSecretPlainRead(w) ==
    \E provider \in Providers, key \in Keys, name \in Names :
        /\ op[w].pc = "idle"
        /\ op' = [op EXCEPT ![w] =
                    [pc |-> "read",
                     call |-> Call("save_secret_plain", provider, name, key, None, None, None),
                     read |-> file]]
        /\ UNCHANGED <<file, ret, before>>

\* mutant: the write is computed from the file as it is now
SaveSecretPlainWrite_reread(w) ==
    LET c == op[w].call
    IN  /\ op[w].pc = "read"
        /\ c.name = "save_secret_plain"
        /\ op' = [op EXCEPT ![w].pc = "done"]
        /\ IF plain_exception(file, target_of(c.provider)) # None
           THEN /\ ret' = [ret EXCEPT ![w] =
                              Raised(plain_exception(file, target_of(c.provider)))]
                /\ UNCHANGED <<file, before>>
           ELSE /\ Entries(save_secret_plain(file, c.provider, c.key, c.kname)) <= MaxKeys
                /\ file' = save_secret_plain(file, c.provider, c.key, c.kname)
                /\ ret' = [ret EXCEPT ![w] = Returned(None)]
                /\ before' = [before EXCEPT !.last = w]

\* save_secret_plain, lines 195-223: the list computed from what was read
\* is written over whatever the file holds by now
SaveSecretPlainWrite(w) ==
    LET c == op[w].call
        snapshot == op[w].read
    IN  /\ op[w].pc = "read"
        /\ c.name = "save_secret_plain"
        /\ op' = [op EXCEPT ![w].pc = "done"]
        /\ IF plain_exception(snapshot, target_of(c.provider)) # None
           THEN /\ ret' = [ret EXCEPT ![w] =
                              Raised(plain_exception(snapshot, target_of(c.provider)))]
                /\ UNCHANGED <<file, before>>
           ELSE /\ Entries(save_secret_plain(snapshot, c.provider, c.key, c.kname)) <= MaxKeys
                /\ file' = save_secret_plain(snapshot, c.provider, c.key, c.kname)
                /\ ret' = [ret EXCEPT ![w] = Returned(None)]
                /\ before' = [before EXCEPT !.last = w]

\* save_secret_encrypted, line 154: the writer loads the file
SaveSecretEncryptedRead(w) ==
    \E provider \in Providers, key \in Keys, name \in Names,
       password \in Passwords \ {""}, env_openai \in EnvOpenAI :
        /\ op[w].pc = "idle"
        /\ op' = [op EXCEPT ![w] =
                    [pc |-> "read",
                     call |-> Call("save_secret_encrypted", provider, name, key,
                                   password, env_openai, None),
                     read |-> file]]
        /\ UNCHANGED <<file, ret, before>>

\* save_secret_encrypted, lines 156-180: the store built from what was
\* loaded is written over whatever the file holds by now
SaveSecretEncryptedWrite(w) ==
    \E salt \in SaltBytes :
        LET c == op[w].call
            written == save_secret_encrypted(op[w].read, c.provider, c.kname, c.key,
                                             c.password, c.env_openai, c.env_gemini, salt)
        IN  /\ op[w].pc = "read"
            /\ c.name = "save_secret_encrypted"
            /\ Entries(written) <= MaxKeys
            /\ op' = [op EXCEPT ![w].pc = "done"]
            /\ file' = written
            /\ ret' = [ret EXCEPT ![w] = Returned(TRUE)]
            /\ before' = [before EXCEPT !.last = w]

NextRace ==
    \E w \in Writers :
        \/ SaveSecretPlainRead(w)
        \/ SaveSecretPlainWrite(w)
        \/ SaveSecretEncryptedRead(w)
        \/ SaveSecretEncryptedWrite(w)

SpecRace == InitRace /\ [][NextRace]_vars

----------------------------------------------------------------------------
(* _sanitize_profile_name, profile_utils.py lines 9-30. A name is the      *)
(* sequence of its characters.                                             *)

\* longest profile name tried
MaxNameLen == 4

\* a letter, the dot, the two path separators, the space and one of the
\* other characters the function removes
NameChars == {"a", ".", "/", "\\", " ", "<"}

AllNames == SeqsUpTo(NameChars, MaxNameLen)

Default == <<"D", "e", "f", "a", "u", "l", "t">>

\* os.sep and os.altsep of the platform: posixpath or ntpath
Platforms == {{"/"}, {"/", "\\"}}

\* line 18: os.path.basename, what follows the last separator
RECURSIVE basename(_, _)
basename(p, seps) ==
    IF p = <<>> THEN <<>>
    ELSE IF \E i \in 1..Len(p) : p[i] \in seps
         THEN basename(Tail(p), seps)
         ELSE p

\* line 21: re.sub(r'[<>:"/\\|?*]', '', sanitized)
DangerousChars == {"<", ">", ":", "\"", "/", "\\", "|", "?", "*"}
remove_dangerous(s) == SelectSeq(s, LAMBDA c : c \notin DangerousChars)

\* the string without its leading dots
RECURSIVE skip_dots(_)
skip_dots(s) ==
    IF s # <<>> /\ Head(s) = "." THEN skip_dots(Tail(s)) ELSE s

\* line 22: re.sub(r'\.\.+', '', sanitized), every run of two or more dots
RECURSIVE remove_dot_runs(_)
remove_dot_runs(s) ==
    IF s = <<>> THEN <<>>
    ELSE IF Len(s) >= 2 /\ s[1] = "." /\ s[2] = "."
         THEN remove_dot_runs(skip_dots(s))
         ELSE <<Head(s)>> \o remove_dot_runs(Tail(s))

\* line 25: sanitized.strip('. ')
RECURSIVE lstrip(_)
lstrip(s) ==
    IF s # <<>> /\ Head(s) \in {".", " "} THEN lstrip(Tail(s)) ELSE s

RECURSIVE rstrip(_)
rstrip(s) ==
    IF s # <<>> /\ s[Len(s)] \in {".", " "} THEN rstrip(SubSeq(s, 1, Len(s) - 1)) ELSE s

strip(s) == rstrip(lstrip(s))

\* mutant: the name is only stripped
sanitize_strip_only(profile_name, seps) ==
    IF profile_name = <<>> THEN Default
    ELSE IF strip(profile_name) = <<>> THEN Default ELSE strip(profile_name)

_sanitize_profile_name(profile_name, seps) ==
    IF profile_name = <<>> THEN Default
    ELSE LET sanitized == strip(remove_dot_runs(remove_dangerous(basename(profile_name, seps))))
         IN  IF sanitized = <<>> THEN Default ELSE sanitized

\* the function called on its own: the name in before, the result in ret
InitNames ==
    /\ file = NoFile
    /\ before = NoFile
    /\ op = NoCall
    /\ ret = Returned(None)

SanitizeProfileName ==
    \E profile_name \in AllNames, seps \in Platforms :
        /\ Idle
        /\ op' = PureCall("_sanitize_profile_name", None)
        /\ before' = [kind |-> "name", obj |-> profile_name, seps |-> seps]
        /\ ret' = Returned(_sanitize_profile_name(profile_name, seps))
        /\ UNCHANGED file

NextNames == SanitizeProfileName

SpecNames == InitNames /\ [][NextNames]_vars

----------------------------------------------------------------------------
(* Profiles, profile_utils.py lines 32-91. Here file is the working        *)
(* directory: whether profiles/ exists, the .json files in it by name, the *)
(* old my_profile.json, and the platform's path separators.                *)

\* most profiles the directory holds
MaxProfiles == 2

\* JSON values: text, a number, null, true, a list, an object (its items
\* in order, each a pair of field name and value)
JStr(s) == [t |-> "str", s |-> s, n |-> 0, items |-> <<>>]
JInt(n) == [t |-> "int", s |-> "", n |-> n, items |-> <<>>]
JNull == [t |-> "null", s |-> "", n |-> 0, items |-> <<>>]
JTrue == [t |-> "true", s |-> "", n |-> 0, items |-> <<>>]
JList(items) == [t |-> "list", s |-> "", n |-> 0, items |-> items]
JDict(items) == [t |-> "dict", s |-> "", n |-> 0, items |-> items]

\* the further tokens of JSON text: a number by its digits, a literal
Num(digits) == [tok |-> "number", v |-> digits]
Lit(word) == [tok |-> "literal", v |-> word]
IsPunct(token, c) == token.tok = "punct" /\ token.v = c

\* repr of an int and int of its text, for the one-digit numbers
Digits == <<"0", "1", "2", "3", "4", "5", "6", "7", "8", "9">>
int_repr(n) == Digits[n + 1]
int_parse(digits) == CHOOSE n \in 0..9 : Digits[n + 1] = digits

\* json.dump(data, f, indent=4), line 88, as the tokens it writes
RECURSIVE dump_value(_)
RECURSIVE dump_items(_, _)
dump_items(items, in_dict) ==
    IF items = <<>> THEN <<>>
    ELSE (IF in_dict THEN <<Str(items[1][1])>> \o dump_value(items[1][2])
          ELSE dump_value(items[1]))
         \o dump_items(Tail(items), in_dict)

dump_value(v) ==
    CASE v.t = "str" -> <<Str(v.s)>>
      [] v.t = "int" -> <<Num(int_repr(v.n))>>
      [] v.t = "null" -> <<Lit("null")>>
      [] v.t = "true" -> <<Lit("true")>>
      [] v.t = "list" -> <<Punct("[")>> \o dump_items(v.items, FALSE) \o <<Punct("]")>>
      [] v.t = "dict" -> <<Punct("{")>> \o dump_items(v.items, TRUE) \o <<Punct("}")>>

\* json.load(f), line 72: the value that starts at pos and where it ends
RECURSIVE load_value(_, _)
RECURSIVE load_list(_, _, _)
RECURSIVE load_dict(_, _, _)
load_list(text, pos, items) ==
    IF IsPunct(text[pos], "]") THEN [value |-> JList(items), pos |-> pos + 1]
    ELSE LET e == load_value(text, pos)
         IN  load_list(text, e.pos, Append(items, e.value))

load_dict(text, pos, items) ==
    IF IsPunct(text[pos], "}") THEN [value |-> JDict(items), pos |-> pos + 1]
    ELSE LET e == load_value(text, pos + 1)
         IN  load_dict(text, e.pos, Append(items, <<text[pos].v, e.value>>))

load_value(text, pos) ==
    CASE text[pos].tok = "string" -> [value |-> JStr(text[pos].v), pos |-> pos + 1]
      [] text[pos].tok = "number" ->
            [value |-> JInt(int_parse(text[pos].v)), pos |-> pos + 1]
      [] text[pos].tok = "literal" ->
            [value |-> IF text[pos].v = "null" THEN JNull ELSE JTrue, pos |-> pos + 1]
      [] IsPunct(text[pos], "[") -> load_list(text, pos + 1, <<>>)
      [] IsPunct(text[pos], "{") -> load_dict(text, pos + 1, <<>>)

\* a file of the directory: JSON text, or text json.load fails on
JsonText(text) == [parses |-> TRUE, text |-> text]
BrokenText == [parses |-> FALSE, text |-> <<>>]
NoOldProfile == [exists |-> FALSE, content |-> BrokenText]
OldProfile(content) == [exists |-> TRUE, content |-> content]

\* the profile data saved: objects flat and nested, empty, with a list, a
\* number, null and true; a top-level list
ProfileData ==
    {JDict(<<>>),
     JDict(<< <<"full_name", JStr("Tester")>> >>),
     JDict(<< <<"full_name", JStr("Tester")>>,
              <<"skills", JList(<<JStr("a"), JInt(3), JNull>>)>>,
              <<"links", JDict(<< <<"site", JStr("x")>>, <<"public", JTrue>> >>)>> >>),
     JList(<<JStr("a"), JDict(<< <<"k", JInt(1)>> >>)>>)}

\* the null character, which no file name can hold
NUL == "<NUL>"

\* the names profiles are saved and loaded under
ProfileNames ==
    {<<>>, <<"a">>, <<"a", "a">>, <<"a", ".", "a">>, <<".", ".", "/", "a">>,
     <<"a", "/">>, <<"/", ".", ".">>, <<"a", "\\", "a">>, <<" ", "a", ".">>,
     <<"<", "a">>, <<"a", NUL, "a">>, Default}

\* open() takes the path: not when it holds a null character (ValueError)
path_ok(safe_name) == \A i \in 1..Len(safe_name) : safe_name[i] # NUL

\* lines 32-47: the directory is created, my_profile.json moved to
\* profiles/Default.json unless that exists
ensure_profiles_dir(d) ==
    IF d.old.exists /\ Default \notin DOMAIN d.profiles
    THEN [d EXCEPT !.dir = TRUE,
                   !.profiles = (Default :> d.old.content) @@ d.profiles,
                   !.old = NoOldProfile]
    ELSE [d EXCEPT !.dir = TRUE]

\* mutant: the path is built from the name as given
load_profile_unsanitized(d, profile_name) ==
    LET d1 == ensure_profiles_dir(d)
    IN  IF ~path_ok(profile_name) \/ profile_name \notin DOMAIN d1.profiles
        THEN JDict(<<>>)
        ELSE IF d1.profiles[profile_name].parses
             THEN load_value(d1.profiles[profile_name].text, 1).value
             ELSE JDict(<<>>)

\* lines 63-77: what load_profile(profile_name) returns; os.path.exists is
\* False for a path open() would not take
load_profile(d, profile_name) ==
    LET d1 == ensure_profiles_dir(d)
        safe_name == _sanitize_profile_name(profile_name, d.seps)
    IN  IF ~path_ok(safe_name) \/ safe_name \notin DOMAIN d1.profiles
        THEN JDict(<<>>)
        ELSE IF d1.profiles[safe_name].parses
             THEN load_value(d1.profiles[safe_name].text, 1).value
             ELSE JDict(<<>>)

\* lines 86-91: save_profile returns True, or False when open() raised
save_profile_ok(d, profile_name) ==
    path_ok(_sanitize_profile_name(profile_name, d.seps))

\* lines 79-91: the directory after save_profile(profile_name, data)
save_profile(d, profile_name, data) ==
    LET d1 == ensure_profiles_dir(d)
        safe_name == _sanitize_profile_name(profile_name, d.seps)
    IN  IF ~save_profile_ok(d, profile_name) THEN d1
        ELSE [d1 EXCEPT !.profiles =
                (safe_name :> JsonText(dump_value(data))) @@ d1.profiles]

ProfileCall(name, profile_name, data) ==
    [name |-> name, profile_name |-> profile_name, data |-> data]

\* the directories a run starts from
InitProfiles ==
    /\ file \in {[dir |-> dir, profiles |-> profiles, old |-> old, seps |-> seps] :
                    dir \in BOOLEAN,
                    profiles \in {<<>>, (Default :> BrokenText),
                                  (<<"a">> :> JsonText(dump_value(JDict(<<>>))))},
                    old \in {NoOldProfile, OldProfile(BrokenText),
                             OldProfile(JsonText(dump_value(JDict(<<
                                 <<"full_name", JStr("Old")>> >>))))},
                    seps \in Platforms}
    /\ (file.profiles # <<>> => file.dir)
    /\ before = file
    /\ op = NoCall
    /\ ret = Returned(None)

\* load_profile(profile_name)
LoadProfile ==
    \E profile_name \in ProfileNames :
        /\ Idle
        /\ op' = ProfileCall("load_profile", profile_name, JNull)
        /\ before' = file
        /\ file' = ensure_profiles_dir(file)
        /\ ret' = Returned(load_profile(file, profile_name))

\* save_profile(profile_name, data)
SaveProfile ==
    \E profile_name \in ProfileNames, data \in ProfileData :
        /\ Idle
        /\ Cardinality(DOMAIN save_profile(file, profile_name, data).profiles) <= MaxProfiles
        /\ op' = ProfileCall("save_profile", profile_name, data)
        /\ before' = file
        /\ file' = save_profile(file, profile_name, data)
        /\ ret' = Returned(save_profile_ok(file, profile_name))

NextProfiles ==
    \/ LoadProfile
    \/ SaveProfile
    \/ Rerun

SpecProfiles == InitProfiles /\ [][NextProfiles]_vars

----------------------------------------------------------------------------
(* clean_json_text, utils.py lines 34-62. A text is the sequence of its    *)
(* pieces: the fence of three backquotes, the word json, the two braces, a blank and any   *)
(* other character.                                                        *)

\* longest text tried
MaxTextLen == 5

\* the three backquotes
Fence == "<fence>"
TextPieces == {Fence, "json", "{", "}", " ", "x"}
AllTexts == SeqsUpTo(TextPieces, MaxTextLen)

\* the blanks skipped from pos on: the position of the first piece that is
\* not a blank
RECURSIVE skip_blanks(_, _)
skip_blanks(text, pos) ==
    IF pos <= Len(text) /\ text[pos] = " " THEN skip_blanks(text, pos + 1) ELSE pos

\* line 43, the opening of the pattern (a fence, the word json or not,
\* blanks, an opening brace) matched from the fence at i: the position of the
\* brace, 0 when the pattern does not match there
fence_open(text, i) ==
    IF text[i] # Fence THEN 0
    ELSE LET j == IF i + 1 <= Len(text) /\ text[i + 1] = "json" THEN i + 2 ELSE i + 1
             b == skip_blanks(text, j)
         IN  IF b <= Len(text) /\ text[b] = "{" THEN b ELSE 0

\* line 43, the rest of the pattern from the brace at b: the closing braces after which,
\* blanks apart, a fence follows
fence_closes(text, b) ==
    {e \in (b + 1)..Len(text) :
        /\ text[e] = "}"
        /\ skip_blanks(text, e + 1) <= Len(text)
        /\ text[skip_blanks(text, e + 1)] = Fence}

\* line 43: re.search, the positions the pattern matches from
fence_matches(text) ==
    {i \in 1..Len(text) : fence_open(text, i) # 0 /\ fence_closes(text, fence_open(text, i)) # {}}

Least(S) == CHOOSE x \in S : \A y \in S : x <= y

\* line 45: group 1 of the leftmost match, the lazy body up to the first
\* closing brace that will do
fence_group(text) ==
    LET b == fence_open(text, Least(fence_matches(text)))
    IN  SubSeq(text, b, Least(fence_closes(text, b)))

\* lines 50-59: the scan that counts braces; start_idx 0 stands for -1
RECURSIVE brace_scan(_, _, _, _)
brace_scan(text, i, brace_count, start_idx) ==
    IF i > Len(text) THEN [found |-> FALSE, from |-> 0, to |-> 0]
    ELSE IF text[i] = "{"
         THEN brace_scan(text, i + 1, brace_count + 1,
                         IF brace_count = 0 THEN i ELSE start_idx)
    ELSE IF text[i] = "}"
         THEN IF brace_count - 1 = 0 /\ start_idx # 0
              THEN [found |-> TRUE, from |-> start_idx, to |-> i]
              ELSE brace_scan(text, i + 1, brace_count - 1, start_idx)
    ELSE brace_scan(text, i + 1, brace_count, start_idx)

\* line 62: the fences with the word json are removed, then the bare fences,
\* then the blanks at both ends
RECURSIVE replace_fence_json(_)
replace_fence_json(text) ==
    IF text = <<>> THEN <<>>
    ELSE IF Len(text) >= 2 /\ text[1] = Fence /\ text[2] = "json"
         THEN replace_fence_json(SubSeq(text, 3, Len(text)))
         ELSE <<Head(text)>> \o replace_fence_json(Tail(text))

replace_fence(text) == SelectSeq(text, LAMBDA c : c # Fence)

RECURSIVE strip_blanks(_)
strip_blanks(text) ==
    IF text # <<>> /\ Head(text) = " " THEN strip_blanks(Tail(text))
    ELSE IF text # <<>> /\ text[Len(text)] = " "
         THEN strip_blanks(SubSeq(text, 1, Len(text) - 1))
         ELSE text

clean_json_text(text) ==
    IF text = <<>> THEN <<>>
    ELSE IF fence_matches(text) # {} THEN strip_blanks(fence_group(text))
    ELSE LET scan == brace_scan(text, 1, 0, 0)
         IN  IF scan.found THEN SubSeq(text, scan.from, scan.to)
             ELSE strip_blanks(replace_fence(replace_fence_json(text)))

\* the function called on its own: the text in before, the result in ret
InitTexts ==
    /\ file = NoFile
    /\ before = NoFile
    /\ op = NoCall
    /\ ret = Returned(None)

CleanJsonText ==
    \E text \in AllTexts :
        /\ Idle
        /\ op' = PureCall("clean_json_text", None)
        /\ before' = [kind |-> "text", obj |-> text]
        /\ ret' = Returned(clean_json_text(text))
        /\ UNCHANGED file

NextTexts == CleanJsonText

SpecTexts == InitTexts /\ [][NextTexts]_vars

----------------------------------------------------------------------------
(* FaceMeshProcessor and AudioRecorder, recorder_utils.py: one recorder    *)
(* object whose methods run on several threads. file is the object, op the *)
(* position of each thread, ret what each thread's last call returned,     *)
(* before the containers av.open made and the frames written so far.       *)

\* av.open calls in one behaviour
MaxContainers == 2

Threads == {"t1", "t2", "t3"}
Recorders == {"FaceMeshProcessor", "AudioRecorder"}

\* self.container = None
NoContainer == 0

ThreadIdle == [pc |-> "idle", overlay |-> None]

\* lines 12-19 and 137-142: __init__
InitRecorder ==
    /\ file \in {[kind |-> k, record |-> FALSE, container |-> NoContainer,
                  stream |-> NoContainer, lock |-> None] : k \in Recorders}
    /\ op = [t \in Threads |-> ThreadIdle]
    /\ ret = [t \in Threads |-> Returned(None)]
    /\ before = [containers |-> <<>>, frames |-> {}]

\* the state of the container a stream or the object refers to
StatusOf(c) == IF c = NoContainer THEN "none" ELSE before.containers[c]

\* one encode of a frame by self.stream and mux into self.container, as the
\* containers are at that moment
Written(method, f) ==
    [method |-> method,
     stream |-> StatusOf(f.stream),
     container |-> StatusOf(f.container),
     same |-> f.stream = f.container]

\* start_recording, lines 48-50 and 145-146: the lock taken, record set
StartRecordingEnter(t) ==
    /\ op[t].pc = "idle"
    /\ file.lock = None
    /\ Len(before.containers) < MaxContainers
    /\ file' = [file EXCEPT !.lock = t, !.record = TRUE]
    /\ op' = [op EXCEPT ![t].pc = "start_open"]
    /\ UNCHANGED <<ret, before>>

\* lines 51-54 and 148-149: av.open and add_stream, then the lock released
StartRecordingOpen(t) ==
    LET c == Len(before.containers) + 1
    IN  /\ op[t].pc = "start_open"
        /\ before' = [before EXCEPT !.containers = Append(@, "open")]
        /\ file' = [file EXCEPT !.container = c, !.stream = c, !.lock = None]
        /\ op' = [op EXCEPT ![t].pc = "idle"]
        /\ ret' = [ret EXCEPT ![t] = Returned(None)]

\* lines 51 and 148: av.open raises, the with block releases the lock
StartRecordingOpenFails(t) ==
    /\ op[t].pc = "start_open"
    /\ file' = [file EXCEPT !.lock = None]
    /\ op' = [op EXCEPT ![t].pc = "idle"]
    /\ ret' = [ret EXCEPT ![t] = Raised("OSError")]
    /\ UNCHANGED before

\* stop_recording, lines 57-58 and 152-153: the lock taken, record cleared
StopRecordingEnter(t) ==
    /\ op[t].pc = "idle"
    /\ file.lock = None
    /\ file' = [file EXCEPT !.lock = t, !.record = FALSE]
    /\ op' = [op EXCEPT ![t].pc = "stop_close"]
    /\ UNCHANGED <<ret, before>>

\* lines 59-65 and 154-160: the stream flushed into the container, the
\* container closed and forgotten, the lock released
StopRecordingClose(t) ==
    /\ op[t].pc = "stop_close"
    /\ IF file.container # NoContainer
       THEN /\ before' = [containers |-> [before.containers EXCEPT ![file.container] = "closed"],
                          frames |-> before.frames \cup {Written("stop_recording", file)}]
            /\ file' = [file EXCEPT !.container = NoContainer, !.lock = None]
            /\ ret' = [ret EXCEPT ![t] = Returned("output_file")]
       ELSE /\ file' = [file EXCEPT !.lock = None]
            /\ ret' = [ret EXCEPT ![t] = Returned(None)]
            /\ UNCHANGED before
    /\ op' = [op EXCEPT ![t].pc = "idle"]

\* recv, lines 67-104: the frame drawn on; FaceMeshProcessor reads
\* self.record for the overlay without the lock, AudioRecorder has no such
\* step
RecvCall(t) ==
    /\ op[t].pc = "idle"
    /\ op' = [op EXCEPT ![t] =
                [pc |-> "recv_lock",
                 overlay |-> IF file.kind = "FaceMeshProcessor" THEN file.record ELSE None]]
    /\ UNCHANGED <<file, ret, before>>

\* mutant: recv goes on without the lock
RecvEnter_unlocked(t) ==
    /\ op[t].pc = "recv_lock"
    /\ op' = [op EXCEPT ![t].pc = "recv_check"]
    /\ UNCHANGED <<file, ret, before>>

\* lines 107 and 164: with self.lock
RecvEnter(t) ==
    /\ op[t].pc = "recv_lock"
    /\ file.lock = None
    /\ file' = [file EXCEPT !.lock = t]
    /\ op' = [op EXCEPT ![t].pc = "recv_check"]
    /\ UNCHANGED <<ret, before>>

\* lines 108 and 165: if self.record and self.container
RecvCheck(t) ==
    /\ op[t].pc = "recv_check"
    /\ IF file.record /\ file.container # NoContainer
       THEN /\ op' = [op EXCEPT ![t].pc = "recv_mux"]
            /\ UNCHANGED <<file, ret>>
       ELSE /\ op' = [op EXCEPT ![t] = ThreadIdle]
            /\ file' = [file EXCEPT !.lock = IF @ = t THEN None ELSE @]
            /\ ret' = [ret EXCEPT ![t] = Returned("frame")]
    /\ UNCHANGED before

\* lines 128-130 and 166-167: self.stream.encode(frame), then
\* self.container.mux(packet), both read from the object at that moment; the
\* lock released
RecvMux(t) ==
    /\ op[t].pc = "recv_mux"
    /\ before' = [before EXCEPT !.frames = @ \cup {Written("recv", file)}]
    /\ ret' = [ret EXCEPT ![t] = IF file.container = NoContainer
                                 THEN Raised("AttributeError")
                                 ELSE Returned("frame")]
    /\ file' = [file EXCEPT !.lock = IF @ = t THEN None ELSE @]
    /\ op' = [op EXCEPT ![t] = ThreadIdle]

NextRecorder ==
    \E t \in Threads :
        \/ StartRecordingEnter(t)
        \/ StartRecordingOpen(t)
        \/ StartRecordingOpenFails(t)
        \/ StopRecordingEnter(t)
        \/ StopRecordingClose(t)
        \/ RecvCall(t)
        \/ RecvEnter(t)
        \/ RecvCheck(t)
        \/ RecvMux(t)

SpecRecorder == InitRecorder /\ [][NextRecorder]_vars

----------------------------------------------------------------------------
(* Vocabulary of the properties *)

Fields == <<"openai_keys", "gemini_keys">>

IsEncrypted(f) == f.kind = "object" /\ "version" \in DOMAIN f.obj /\ f.obj["version"] >= 1
IsPlain(f) == f.kind = "object" /\ "version" \notin DOMAIN f.obj

\* the password opens the store at the cipher level: right key, intact token
Opens(f, password) ==
    /\ IsEncrypted(f)
    /\ f.obj["data"].intact
    /\ \E b \in SaltBytes : hex(b) = f.obj["salt"] /\ f.obj["data"].sealed_with = <<password, b>>

\* the key lists a file holds: in the clear, or inside the sealed payload
Stored(f) ==
    IF f.kind # "object" THEN [openai_keys |-> <<>>, gemini_keys |-> <<>>]
    ELSE IF IsEncrypted(f) THEN json_loads(f.obj["data"].msg)
         ELSE [openai_keys |-> IF "openai_keys" \in DOMAIN f.obj
                               THEN f.obj["openai_keys"] ELSE <<>>,
               gemini_keys |-> IF "gemini_keys" \in DOMAIN f.obj
                               THEN f.obj["gemini_keys"] ELSE <<>>]

EnvOf(call, field) == IF field = "openai_keys" THEN call.env_openai ELSE call.env_gemini

\* a loaded list without the env entry put in front of it
WithoutEnv(k_list, env_value) == IF Truthy(env_value) THEN Tail(k_list) ELSE k_list

HasEnvEntry(k_list) == \E i \in 1..Len(k_list) : k_list[i].source = "env"

TargetField(call) == IF call.provider = "OpenAI" THEN "openai_keys" ELSE "gemini_keys"
OtherField(call) == IF call.provider = "OpenAI" THEN "gemini_keys" ELSE "openai_keys"

\* the entry-by-entry image of a stored list after migration
Migrated(old, new) ==
    /\ Len(new) = Len(old)
    /\ \A i \in 1..Len(old) :
          IF old[i].t = "str"
          THEN new[i].t = "dict" /\ new[i].key = old[i].key /\ new[i].name # None
          ELSE new[i] = old[i]

----------------------------------------------------------------------------
(* C1: save_secret_encrypted called on an encrypted store with a password  *)
(* that does not decrypt it returns a failure result, does not raise, and  *)
(* leaves the file exactly as it was.                                      *)
C1_WrongPasswordSaveFails ==
    (/\ op.name = "save_secret_encrypted"
     /\ IsEncrypted(before)
     /\ ~Opens(before, op.password))
    => (~ret.raised /\ ret.value = FALSE /\ file = before)

(* C2: after init_encryption(p) with a non-empty p on a plaintext/legacy   *)
(* store, the file has version 1 and load(p) is unlocked and returns, per   *)
(* provider, the stored entries in their order, each bare string replaced  *)
(* by a named entry with the same key and each named entry unchanged.      *)
C2_MigrationKeepsEveryKey ==
    (/\ op.name = "init_encryption"
     /\ IsPlain(before)
     /\ op.password # "")
    => /\ file.kind = "object"
       /\ file.obj["version"] = 1
       /\ \A env_openai \in EnvOpenAI, env_gemini \in EnvGemini :
             LET loaded == load_secrets(file, op.password, env_openai, env_gemini)
             IN  /\ loaded.is_encrypted
                 /\ ~loaded.requires_unlock
                 /\ Migrated(Stored(before).openai_keys,
                             WithoutEnv(loaded.openai_keys, env_openai))
                 /\ Migrated(Stored(before).gemini_keys,
                             WithoutEnv(loaded.gemini_keys, env_gemini))

\* a legacy store with a list mixing a bare string and a named entry was migrated
C2_Witness ==
    /\ op.name = "init_encryption"
    /\ op.password = "hunter2"
    /\ IsPlain(before)
    /\ Stored(before).openai_keys = <<Bare("sk-test1234"), Named("Work", "abc")>>
    /\ Stored(file).openai_keys[1].t = "dict"
    /\ Stored(file).openai_keys[2] = Named("Work", "abc")

\* what C3 promises of a call save_secret_encrypted(provider, name, key, p)
C3_Rewritten ==
    /\ ~ret.raised
    /\ IsEncrypted(file)
    /\ LET loaded == load_secrets(file, op.password, None, None)
       IN  /\ ~loaded.requires_unlock
           /\ loaded[TargetField(op)] =
                 Append(Stored(before)[TargetField(op)], Named(op.kname, op.key))
           /\ loaded[OtherField(op)] = Stored(before)[OtherField(op)]

(* C3 as stated: save_secret_encrypted on an encrypted store with the      *)
(* password p it was encrypted under rewrites the store under p, so that   *)
(* load(p) returns the target list's previous entries followed by the new  *)
(* entry and the other list unchanged.                                     *)
C3_Original ==
    (op.name = "save_secret_encrypted" /\ Opens(before, op.password))
    => C3_Rewritten

(* C3 amended: the same, for a correct password that is not empty.         *)
C3_CorrectPasswordAppends ==
    (op.name = "save_secret_encrypted" /\ Opens(before, op.password) /\ op.password # "")
    => C3_Rewritten

\* a key was added to an unlocked store that already held one for that provider
C3_Witness ==
    /\ op.name = "save_secret_encrypted"
    /\ Opens(before, op.password)
    /\ op.password # ""
    /\ Len(Stored(before)[TargetField(op)]) >= 1
    /\ Len(Stored(file)[TargetField(op)]) >= 2
    /\ Truthy(op.env_openai)

(* C4: load_secrets on an encrypted file with no password, an empty        *)
(* password, a wrong password or a damaged salt or ciphertext does not     *)
(* raise and returns is_encrypted, requires_unlock and lists that hold     *)
(* nothing of the stored payload: at most the env entry.                   *)
C4_LockedLoadIsEmpty ==
    (/\ op.name = "load_secrets"
     /\ IsEncrypted(before)
     /\ (op.password = None \/ op.password = "" \/ ~Opens(before, op.password)))
    => /\ ~ret.raised
       /\ ret.value.is_encrypted
       /\ ret.value.requires_unlock
       /\ \A n \in 1..2 :
             /\ WithoutEnv(ret.value[Fields[n]], EnvOf(op, Fields[n])) = <<>>
             /\ \A i \in 1..Len(ret.value[Fields[n]]) :
                   ret.value[Fields[n]][i].source = "env"

\* a store that holds a key was loaded with a password other than its own
C4_Witness ==
    /\ op.name = "load_secrets"
    /\ op.password = "wrong"
    /\ Opens(before, "hunter2")
    /\ Len(Stored(before).openai_keys) >= 1
    /\ ret.value.requires_unlock
    /\ ret.value.openai_keys = <<>>

(* C5: load_secrets with no file returns two empty lists, not encrypted,   *)
(* no unlock required; on a JSON object without a version marker it        *)
(* returns the two lists as stored (a missing field reads as empty), not   *)
(* encrypted, no unlock required, whatever the password.  (The lists are   *)
(* those the disk contributes; an env entry is put in front, see C7.)      *)
C5_NoFileAndLegacyLoad ==
    (op.name = "load_secrets" /\ (before.kind = "absent" \/ IsPlain(before)))
    => /\ ~ret.raised
       /\ ~ret.value.is_encrypted
       /\ ~ret.value.requires_unlock
       /\ \A n \in 1..2 :
             WithoutEnv(ret.value[Fields[n]], EnvOf(op, Fields[n])) =
                IF before.kind = "absent" THEN <<>>
                ELSE IF Fields[n] \in DOMAIN before.obj THEN before.obj[Fields[n]]
                     ELSE <<>>

\* a legacy file missing one list field was loaded with a password
C5_Witness ==
    /\ op.name = "load_secrets"
    /\ op.password = "hunter2"
    /\ IsPlain(before)
    /\ DOMAIN before.obj = {"openai_keys"}
    /\ ret.value.openai_keys = <<Bare("sk-test1234"), Named("Work", "abc")>>
    /\ ret.value.gemini_keys = <<>>

(* C6: no entry tagged source = "env" is ever in the file, in the clear or *)
(* in the sealed payload, whatever calls were made while the variables     *)
(* were set; and a load made with the variables unset returns no env       *)
(* entry.                                                                  *)
C6_EnvNeverPersisted ==
    /\ ~HasEnvEntry(Stored(file).openai_keys)
    /\ ~HasEnvEntry(Stored(file).gemini_keys)
    /\ (op.name = "load_secrets" /\ op.env_openai = None /\ op.env_gemini = None)
       => (~HasEnvEntry(ret.value.openai_keys) /\ ~HasEnvEntry(ret.value.gemini_keys))

\* a store with keys was encrypted while both variables were set
C6_Witness ==
    /\ op.name = "init_encryption"
    /\ Truthy(op.env_openai)
    /\ Truthy(op.env_gemini)
    /\ IsPlain(before)
    /\ Len(Stored(file).openai_keys) >= 1

\* the entries a load with this password reads from the disk
OnDisk(f, password, field) ==
    IF f.kind # "object" THEN <<>>
    ELSE IF IsEncrypted(f)
         THEN IF password # None /\ password # "" /\ Opens(f, password)
              THEN Stored(f)[field] ELSE <<>>
         ELSE Stored(f)[field]

(* C7: whenever a provider's environment variable is set, the load result, *)
(* in every state (no file, unreadable, legacy, locked, unlocked), has the *)
(* env entry tagged source = "env" as first element of that provider's     *)
(* list, followed by the entries read from disk in their stored order.     *)
C7_EnvEntryFirst ==
    op.name = "load_secrets"
    => \A n \in 1..2 :
          Truthy(EnvOf(op, Fields[n]))
          => /\ Len(ret.value[Fields[n]]) >= 1
             /\ ret.value[Fields[n]][1].source = "env"
             /\ ret.value[Fields[n]][1].key = EnvOf(op, Fields[n])
             /\ Tail(ret.value[Fields[n]]) = OnDisk(before, op.password, Fields[n])

\* an unlocked store with a key was loaded while OPENAI_API_KEY was set
C7_Witness ==
    /\ op.name = "load_secrets"
    /\ Truthy(op.env_openai)
    /\ op.password = "hunter2"
    /\ Opens(before, "hunter2")
    /\ Len(ret.value.openai_keys) = 2
    /\ ret.value.openai_keys[2] = Named("My Key", "sk-test1234")

(* C8: once the file is in encrypted shape, no vault operation leaves it   *)
(* in another shape; only the removal of the file ends the encrypted       *)
(* state.                                                                  *)
C8_EncryptedStaysEncrypted ==
    IsEncrypted(before)
    => \/ IsEncrypted(file)
       \/ (op.name = "factory_reset" /\ file.kind = "absent")

\* save_secret_plain was called on an encrypted store
C8_Witness ==
    /\ op.name = "save_secret_plain"
    /\ IsEncrypted(before)
    /\ IsEncrypted(file)

(* C9: starting from an absent file, the file is always absent, or a       *)
(* plaintext object with both list fields and no version, or an encrypted  *)
(* object with exactly version = 1, salt and data; never a mixture.        *)
C9_FileShape ==
    \/ file.kind = "absent"
    \/ (file.kind = "object" /\ DOMAIN file.obj = {"openai_keys", "gemini_keys"})
    \/ (/\ file.kind = "object"
        /\ DOMAIN file.obj = {"version", "salt", "data"}
        /\ file.obj["version"] = 1)

\* a plaintext store made by save_secret_plain was turned into an encrypted one
C9_Witness ==
    /\ op.name = "init_encryption"
    /\ IsPlain(before)
    /\ Len(Stored(before).openai_keys) >= 1
    /\ IsEncrypted(file)

(* C10: save_secret_plain does not append an entry when the provider's     *)
(* list already holds an entry, bare or named, with the same key value.    *)
C10_DuplicateSuppressed ==
    (/\ op.name = "save_secret_plain"
     /\ ~ret.raised
     /\ \E i \in 1..Len(Stored(before)[TargetField(op)]) :
           Stored(before)[TargetField(op)][i].key = op.key)
    => Len(Stored(file)[TargetField(op)]) = Len(Stored(before)[TargetField(op)])

(* C11: with no file on disk, save_secret_plain(provider, key, name)       *)
(* returns without raising and creates a plaintext file whose target       *)
(* provider list is exactly the one entry {name, key} and whose other      *)
(* provider list is empty.                                                 *)
C11_FirstPlainKey ==
    (op.name = "save_secret_plain" /\ before.kind = "absent")
    => /\ ~ret.raised
       /\ file.kind = "object"
       /\ DOMAIN file.obj = {"openai_keys", "gemini_keys"}
       /\ file.obj[TargetField(op)] = <<Named(op.kname, op.key)>>
       /\ file.obj[OtherField(op)] = <<>>

\* the first Gemini key was saved in the clear while no file existed
C11_Witness ==
    /\ op.name = "save_secret_plain"
    /\ op.provider = "Gemini"
    /\ before.kind = "absent"
    /\ file.kind = "object"
    /\ file.obj["gemini_keys"] = <<Named("Work", "abc")>>

(* C12: save_secret_plain succeeds on every plaintext/legacy object, also  *)
(* one that lacks the target provider's list field or both fields: it      *)
(* does not raise, afterwards both list fields are present, the new key    *)
(* is in the target list and the other provider's list is as it was.       *)
C12_PlainSaveOnAnyLegacyFile ==
    (op.name = "save_secret_plain" /\ IsPlain(before))
    => /\ ~ret.raised
       /\ IsPlain(file)
       /\ {"openai_keys", "gemini_keys"} \subseteq DOMAIN file.obj
       /\ \E i \in 1..Len(file.obj[TargetField(op)]) :
             file.obj[TargetField(op)][i].key = op.key
       /\ file.obj[OtherField(op)] = Stored(before)[OtherField(op)]

(* C13: a file that exists but cannot be read or parsed as JSON makes      *)
(* load_secrets return, without raising, what it returns for an absent     *)
(* file, and makes save_secret_plain start from the empty two-list         *)
(* skeleton, as it does for an absent file.                                *)
C13_UnreadableFileIsNoFile ==
    (before.kind \in {"garbage", "undecodable"})
    => /\ op.name = "load_secrets"
          => /\ ~ret.raised
             /\ ret.value = load_secrets(NoFile, op.password, op.env_openai, op.env_gemini)
       /\ op.name = "save_secret_plain"
          => /\ ~ret.raised
             /\ file = save_secret_plain(NoFile, op.provider, op.key, op.kname)

\* the file is missing, unreadable or of an unexpected shape
IsMalformed(f) ==
    f.kind \in {"absent", "garbage", "undecodable", "array", "text_version", "null_fields"}

\* the call brought a password that does not open the encrypted store
BadPassword(f, call) ==
    /\ IsEncrypted(f)
    /\ call.name \in {"load_secrets", "init_encryption", "save_secret_encrypted"}
    /\ ~Opens(f, call.password)

(* C14: no vault operation raises because of a bad password, a missing     *)
(* file, or file content that is malformed or of an unexpected JSON shape  *)
(* (top level not an object, version not a number, a list field null or    *)
(* not a list).                                                            *)
C14_NoOperationRaises ==
    (IsMalformed(before) \/ BadPassword(before, op)) => ~ret.raised

\* a save-style call whose write failed
WriteFails ==
    \/ InitEncryptionWriteFails
    \/ SaveSecretEncryptedWriteFails
    \/ SaveSecretPlainWriteFails

(* C15: every save-style operation (init_encryption, save_secret_plain,    *)
(* save_secret_encrypted) whose write fails reports the failure as its     *)
(* return value and does not raise.                                        *)
C15_FailedWriteIsReported ==
    [][WriteFails => (~ret'.raised /\ ret'.value = FALSE)]_vars

(* C16: load_secrets never writes: the file is afterwards what it was      *)
(* (absent stays absent), and a second load with the same password and     *)
(* environment returns a result equal to the first.                        *)
C16_LoadNeverWrites ==
    (op.name = "load_secrets")
    => /\ file = before
       /\ ~ret.raised
       /\ ret.value = load_secrets(file, op.password, op.env_openai, op.env_gemini)

\* a load with a password and OPENAI_API_KEY set found no file and left none
C16_Witness ==
    /\ op.name = "load_secrets"
    /\ op.password = "hunter2"
    /\ Truthy(op.env_openai)
    /\ before.kind = "absent"
    /\ file.kind = "absent"
    /\ Len(ret.value.openai_keys) = 1

\* a dict given as its items, as the function of its keys
AsDict(items) ==
    [k \in {items[i][1] : i \in 1..Len(items)} |->
        items[CHOOSE i \in 1..Len(items) : items[i][1] = k][2]]

(* C17: for every non-empty password p and every payload of bare strings,  *)
(* named entries or both, decrypt_data(encrypt_data(data, p), p) returns   *)
(* data, and the data field of the store is a token sealed under the key   *)
(* derived from p and the stored salt, not the JSON text.                  *)
C17_RoundTrip ==
    (/\ op.name = "decrypt_data"
     /\ op.password = before.password
     /\ op.password # "")
    => /\ ~ret.raised
       /\ ret.value = AsDict(before.data)
       /\ before.obj["version"] = 1
       /\ before.obj["data"].sealed_with
             = derive_key(op.password, fromhex(before.obj["salt"]))

\* a payload mixing a bare string and a named entry came back from the store
C17_Witness ==
    /\ op.name = "decrypt_data"
    /\ op.password = "hunter2"
    /\ before.password = "hunter2"
    /\ before.data[1][2] = <<Bare("sk-test1234"), Named("Work", "abc")>>
    /\ ~ret.raised
    /\ ret.value["openai_keys"] = <<Bare("sk-test1234"), Named("Work", "abc")>>

(* C18: for passwords A # B, decrypt_data of a store made by               *)
(* encrypt_data(data, A) with B raises; it never returns.                  *)
C18_WrongPasswordRejected ==
    (op.name = "decrypt_data" /\ op.password # before.password) => ret.raised

\* a store sealed under "hunter2" was opened with "wrong"
C18_Witness ==
    /\ op.name = "decrypt_data"
    /\ before.password = "hunter2"
    /\ op.password = "wrong"
    /\ ret.raised
    /\ ret.exc = "InvalidToken"

(* C19: normalizing a key list a second time changes nothing, and a list   *)
(* of named entries only comes back from normalization as it was; for the  *)
(* normalization of init_encryption and for that of save_secret_plain.     *)
C19_NormalizeIdempotent ==
    (op.name \in Normalizers)
    => /\ before.pass = 2 => ret.value = before.obj
       /\ (\A i \in 1..Len(before.obj) : isinstance_dict(before.obj[i]))
             => ret.value = before.obj
       /\ Len(ret.value) = Len(before.obj)
       /\ \A i \in 1..Len(before.obj) : ret.value[i].key = before.obj[i].key

\* a list with a bare string, made a list of named entries, was normalized again
C19_Witness ==
    /\ op.name = "init_encryption.normalize"
    /\ before.pass = 2
    /\ before.obj = <<Named("Legacy Key (...1234)", "sk-test1234"), Named("Work", "abc")>>
    /\ ret.value = before.obj

\* the label C20 describes: the last characters of the key, four at most,
\* after the name or after Legacy
C20_Label(key_obj) ==
    (IF isinstance_str(key_obj) THEN "Legacy" ELSE key_obj.name)
    \o " (..." \o Last4(key_obj.key) \o ")"

\* the call is mask_key_obj of a string or of a dict with name and key
C20_Called ==
    /\ op.name = "mask_key_obj"
    /\ before.obj.key # None
    /\ (isinstance_dict(before.obj) => before.obj.name # None)

\* C20 as stated: the same format for every key length
C20_Original ==
    C20_Called => ret.value = C20_Label(before.obj)

(* C20: mask_key_obj renders a named entry as "{name} (...{last 4})" and a *)
(* bare string as "Legacy (...{last 4})" when the key is longer than four  *)
(* characters; a key of four characters or fewer is rendered as the key    *)
(* itself when it is a bare string and, when it is a named entry, as the   *)
(* name followed by a tail of three asterisks in place of the key.         *)
C20_MaskedLabel ==
    C20_Called
    => IF Len(before.obj.key) > 4 THEN ret.value = C20_Label(before.obj)
       ELSE IF isinstance_str(before.obj) THEN ret.value = before.obj.key
       ELSE ret.value = before.obj.name \o " (...***)"

\* a named entry with a key of exactly four characters was rendered
C20_Witness ==
    /\ op.name = "mask_key_obj"
    /\ before.obj = Named("Work", "abcd")
    /\ ret.value = "Work (...***)"

\* the key lists of a file hold this key for this provider
HoldsKey(f, provider, key) ==
    \E i \in 1..Len(Stored(f)[target_of(provider)]) :
        Stored(f)[target_of(provider)][i].key = key

\* both writers read the same file, both wrote, `late` last, and the key
\* `early` added is neither in what they read nor the key `late` added
C21_Interleaved(early, late) ==
    /\ early # late
    /\ op[early].pc = "done" /\ op[late].pc = "done"
    /\ before.last = late
    /\ op[early].read = op[late].read
    /\ ~ret[early].raised /\ ~ret[late].raised
    /\ ~HoldsKey(op[early].read, op[early].call.provider, op[early].call.key)
    /\ <<op[early].call.provider, op[early].call.key>>
          # <<op[late].call.provider, op[late].call.key>>

(* C21: when two writers run a save concurrently and both read the file    *)
(* before either writes, both calls return without error and the file in   *)
(* the end is what the last writer computed from its read: the key the     *)
(* earlier writer added is not in it.                                      *)
C21_LastWriterWins ==
    \A early \in Writers, late \in Writers :
        C21_Interleaved(early, late)
        => /\ ~HoldsKey(file, op[early].call.provider, op[early].call.key)
           /\ HoldsKey(file, op[late].call.provider, op[late].call.key)

\* A and B both saved an OpenAI key in the clear into an empty store, B
\* last: B's key is there, A's key is gone
C21_Witness ==
    /\ C21_Interleaved("A", "B")
    /\ before.start = JsonFile(Skeleton)
    /\ op["A"].call.name = "save_secret_plain"
    /\ op["B"].call.name = "save_secret_plain"
    /\ op["A"].call.key = "sk-test1234"
    /\ op["B"].call.key = "abc"
    /\ op["A"].call.provider = "OpenAI"
    /\ op["B"].call.provider = "OpenAI"
    /\ Len(Stored(file).openai_keys) = 1
    /\ Stored(file).openai_keys[1].key = "abc"

\* the characters _sanitize_profile_name takes out of a name
StrippedChars == DangerousChars \cup {".", " "}

(* C30: for every input string _sanitize_profile_name returns a non-empty  *)
(* name without '/' or '\' and without two dots in a row, so that          *)
(* profiles/<name>.json is a file directly inside the profiles directory;  *)
(* an empty name, and a name of which nothing is left, gives "Default".    *)
C30_SanitizedNameIsSafe ==
    (op.name = "_sanitize_profile_name")
    => /\ ret.value # <<>>
       /\ \A i \in 1..Len(ret.value) : ret.value[i] \notin {"/", "\\"}
       /\ \A i \in 1..(Len(ret.value) - 1) : ~(ret.value[i] = "." /\ ret.value[i + 1] = ".")
       /\ (\A i \in 1..Len(before.obj) : before.obj[i] \in StrippedChars)
             => ret.value = Default

\* the name ../a, a path out of the directory, was sanitized to a
C30_Witness ==
    /\ op.name = "_sanitize_profile_name"
    /\ before.obj = <<".", ".", "/", "a">>
    /\ ret.value = <<"a">>

\* what C22 promises of a call save_profile(name, data)
C22_RoundTrip ==
    /\ ~ret.raised
    /\ ret.value = TRUE
    /\ load_profile(file, op.profile_name) = op.data

\* C22 as stated: for any profile name
C22_Original ==
    (op.name = "save_profile") => C22_RoundTrip

(* C22: for every profile name without a null character and every JSON     *)
(* value, save_profile(name, data) returns True and a load_profile(name)   *)
(* that follows it, with no save in between, returns data.                 *)
C22_ProfileRoundTrip ==
    (op.name = "save_profile" /\ path_ok(op.profile_name))
    => /\ ~ret.raised
       /\ ret.value = TRUE
       /\ load_profile(file, op.profile_name) = op.data

\* a nested profile was saved under the name ../a, in a directory where
\* my_profile.json was still waiting to be moved
C22_Witness ==
    /\ op.name = "save_profile"
    /\ op.profile_name = <<".", ".", "/", "a">>
    /\ before.old.exists
    /\ Len(op.data.items) = 3
    /\ <<"a">> \in DOMAIN file.profiles
    /\ Default \in DOMAIN file.profiles

----------------------------------------------------------------------------
(* C23: clean_json_text *)

\* the brace that closes the one at position i - 1, 0 when none does
RECURSIVE closing_brace(_, _, _)
closing_brace(text, i, depth) ==
    IF i > Len(text) THEN 0
    ELSE IF text[i] = "{" THEN closing_brace(text, i + 1, depth + 1)
    ELSE IF text[i] = "}"
         THEN IF depth = 1 THEN i ELSE closing_brace(text, i + 1, depth - 1)
    ELSE closing_brace(text, i + 1, depth)

\* the opening braces of the text that are closed
ObjectStarts(text) ==
    {s \in 1..Len(text) : text[s] = "{" /\ closing_brace(text, s + 1, 1) # 0}

\* the first complete, brace-balanced object of the text
FirstObject(text) ==
    LET s == Least(ObjectStarts(text))
    IN  SubSeq(text, s, closing_brace(text, s + 1, 1))

\* C23: whenever the text holds a complete (brace-balanced) object,
\* clean_json_text returns exactly the first such object, in a fence or in
\* prose.
C23_FirstCompleteObject ==
    (op.name = "clean_json_text" /\ ObjectStarts(before.obj) # {})
        => ret.value = FirstObject(before.obj)

(* C24 as stated: save_secret_plain called on a store in the encrypted     *)
(* layout completes without an error and leaves a plaintext file in place  *)
(* of the encrypted payload.                                               *)
C24_Original ==
    (op.name = "save_secret_plain" /\ IsEncrypted(before))
    => (~ret.raised /\ IsPlain(file))

(* C24 amended: save_secret_plain called on a store in the encrypted       *)
(* layout raises KeyError before it writes: the file, and the payload in   *)
(* it, is exactly what it was.                                             *)
C24_PlainSaveOnEncryptedRaises ==
    (op.name = "save_secret_plain" /\ IsEncrypted(before))
    => (ret = Raised("KeyError") /\ file = before)

\* save_secret_plain was called on an encrypted store that holds a key
C24_Witness ==
    /\ op.name = "save_secret_plain"
    /\ IsEncrypted(before)
    /\ Entries(before) >= 1
    /\ ret.raised

(* C25: init_encryption(p) called on a store already in the encrypted      *)
(* layout loads it without a password, so with empty lists, and writes an  *)
(* encryption of two empty key lists under p: whatever p is, the right     *)
(* password included, no key stored before the call is left.               *)
C25_ReEncryptionEmptiesStore ==
    (op.name = "init_encryption" /\ IsEncrypted(before))
    => /\ ~ret.raised
       /\ IsEncrypted(file)
       /\ Opens(file, op.password)
       /\ Stored(file) = [openai_keys |-> <<>>, gemini_keys |-> <<>>]

\* init_encryption was called with the right password on a store that held
\* a key, with the env variable set
C25_Witness ==
    /\ op.name = "init_encryption"
    /\ Opens(before, op.password)
    /\ op.password # ""
    /\ Entries(before) >= 1
    /\ Truthy(op.env_openai)
    /\ Entries(file) = 0

\* the structured entries of a stored list, in their order
Structured(k_list) == SelectSeq(k_list, isinstance_dict)

(* C26: save_secret_encrypted called on a plaintext store writes the       *)
(* encrypted layout under the given password and keeps the structured      *)
(* entries only: the payload holds the dict entries of each provider in    *)
(* their order, the new entry last in its list, and no bare string.        *)
C26_ConversionDropsBareStrings ==
    (op.name = "save_secret_encrypted" /\ IsPlain(before))
    => /\ ret = Returned(TRUE)
       /\ IsEncrypted(file)
       /\ Opens(file, op.password)
       /\ Stored(file)[TargetField(op)] =
             Append(Structured(Stored(before)[TargetField(op)]), Named(op.kname, op.key))
       /\ Stored(file)[OtherField(op)] = Structured(Stored(before)[OtherField(op)])
       /\ \A field \in ListFields :
             \A i \in 1..Len(Stored(file)[field]) : ~isinstance_str(Stored(file)[field][i])

\* a key was added with a password to a plaintext store that held one bare
\* string for each provider
C26_Witness ==
    /\ op.name = "save_secret_encrypted"
    /\ IsPlain(before)
    /\ \A field \in ListFields :
          Len(Stored(before)[field]) = 1 /\ isinstance_str(Stored(before)[field][1])
    /\ Stored(file)[TargetField(op)] = <<Named(op.kname, op.key)>>
    /\ Stored(file)[OtherField(op)] = <<>>

\* what load_secrets returns for every password argument, none included
LoadsOf(f) == {load_secrets(f, p, None, None) : p \in Passwords \cup {None}}

(* C27: init_encryption takes an empty password and seals the store under  *)
(* it; load_secrets on a store sealed under the empty password returns     *)
(* requires_unlock and none of the stored keys, whatever password it is    *)
(* given, the empty one included.                                          *)
C27_EmptyPasswordNeverUnlocks ==
    /\ (op.name = "init_encryption" /\ op.password = "")
       => /\ ~ret.raised
          /\ Opens(file, "")
          /\ \A loaded \in LoadsOf(file) :
                /\ loaded.requires_unlock
                /\ loaded.openai_keys = <<>>
                /\ loaded.gemini_keys = <<>>
    /\ (op.name = "load_secrets" /\ Opens(before, ""))
       => /\ ~ret.raised
          /\ ret.value.requires_unlock
          /\ ~HasEnvEntry(ret.value.openai_keys) => ret.value.openai_keys = <<>>
          /\ ~HasEnvEntry(ret.value.gemini_keys) => ret.value.gemini_keys = <<>>

\* a store that holds a key was sealed with init_encryption(""), then
\* loaded with the empty password
C27_Witness ==
    /\ op.name = "load_secrets"
    /\ op.password = ""
    /\ Opens(before, "")
    /\ Entries(before) >= 1
    /\ ret.value.requires_unlock

\* the token of the file is sealed under the key derived from the password
\* and the salt stored next to it
SealedUnderStoredSalt(f, password) ==
    /\ fromhex_ok(f.obj["salt"])
    /\ f.obj["data"].intact
    /\ f.obj["data"].sealed_with = derive_key(password, fromhex(f.obj["salt"]))

(* C28: the salt of every encrypted write, by init_encryption and by       *)
(* save_secret_encrypted, is the one os.urandom returned for that write,   *)
(* whatever salt the replaced file stored, and the key is derived from it; *)
(* load_secrets decrypts with the salt stored in the file it reads, so a   *)
(* password unlocks exactly when the token is sealed under that salt.      *)
C28_FreshSaltPerWrite ==
    /\ (op.name = "init_encryption" /\ ~ret.raised)
       => /\ SealedUnderStoredSalt(file, op.password)
          /\ \A s \in SaltBytes :
                init_encryption(before, op.password, op.env_openai,
                                op.env_gemini, s).obj["salt"] = hex(s)
    /\ (op.name = "save_secret_encrypted" /\ ret = Returned(TRUE))
       => /\ SealedUnderStoredSalt(file, op.password)
          /\ \A s \in SaltBytes :
                save_secret_encrypted(before, op.provider, op.kname, op.key, op.password,
                                      op.env_openai, op.env_gemini, s).obj["salt"] = hex(s)
    /\ (op.name = "load_secrets" /\ IsEncrypted(before) /\ Truthy(op.password))
       => /\ ~ret.raised
          /\ ~ret.value.requires_unlock <=> SealedUnderStoredSalt(before, op.password)

\* a store was rewritten by save_secret_encrypted with the right password
\* and holds another salt than before, under which the password opens it
C28_Witness ==
    /\ op.name = "save_secret_encrypted"
    /\ Opens(before, op.password)
    /\ op.password # ""
    /\ file.obj["salt"] # before.obj["salt"]
    /\ Opens(file, op.password)
    /\ Entries(file) = Entries(before) + 1

----------------------------------------------------------------------------
(* C29: the recorders *)

(* C29: whatever the interleaving of start_recording, stop_recording and   *)
(* recv on different threads, recv encodes a frame with the stream of, and *)
(* muxes it into, the container that is open at that moment: never a       *)
(* closed one, never none; and recv gets to that write only under the lock *)
(* with record set, and does not raise.                                    *)
C29_FramesGoToOpenContainer ==
    /\ \A w \in before.frames :
          w.method = "recv" => (w.container = "open" /\ w.stream = "open" /\ w.same)
    /\ \A t \in Threads :
          /\ ~ret[t].raised \/ ret[t].exc = "OSError"
          /\ op[t].pc = "recv_mux"
             => /\ file.lock = t
                /\ file.record
                /\ StatusOf(file.container) = "open"
                /\ file.stream = file.container

\* a frame was written by recv into the second container, after the first
\* was closed by stop_recording, while another thread waits in recv for the
\* lock a third holds in stop_recording
C29_Witness ==
    /\ \E w \in before.frames : w.method = "recv"
    /\ Len(before.containers) = 2
    /\ before.containers[1] = "closed"
    /\ \E t1, t2 \in Threads :
          /\ op[t1].pc = "recv_lock"
          /\ op[t2].pc = "stop_close"
          /\ file.lock = t2

====
